---- MODULE Spec2Model ----
(***************************************************************************)
(* Presence tracker of richpow/live: the two store tables live_now and     *)
(* live_sessions, the per-creator operations markLive and                  *)
(* markNotLiveCandidate, and the poll scheduler (pollOnce,                 *)
(* runWithConcurrency, main).                                              *)
(*                                                                         *)
(* Spec      probes applied one at a time (one checkCreator at a time).    *)
(* SpecFail  the same, where a store statement may throw.                  *)
(* SpecConc  the process as it runs: load, main, the interval timer, poll  *)
(*           cycles and their workers, one step per store statement; a     *)
(*           statement may throw and the process may be killed.            *)
(* SpecLog   SpecConc with one worker and the count of aborted cycles.     *)
(* SpecCycle one pollOnce call from its fetch to its return, under         *)
(*           fairness.                                                     *)
(* SpecPair  two tasks of one cycle working on the same creator, from any  *)
(*           store that probes applied one at a time can leave.            *)
(* SpecFrame two tasks of one cycle working on two different creators.     *)
(* SpecRun   SpecConc when no store statement throws and nothing is killed.*)
(* SpecDispatch  the order in which pollOnce hands its list to the workers.*)
(***************************************************************************)
EXTENDS Integers, Sequences, FiniteSets, Bags, TLC

----------------------------------------------------------------------------
(* Bounds of the model *)

\* creator ids the entity source can return
Creators == {"c1", "c2"}

\* probes applied in one behaviour of Spec
MaxProbes == 4

\* OFFLINE_MISS_THRESHOLD is read from the environment: 1..MaxThreshold
MaxThreshold == 3

\* poll cycles started in one behaviour of SpecConc (the first one by main,
\* the others by the interval timer)
MaxCycles == 3

\* creators fetched, and so prober calls started, in one behaviour of SpecConc
MaxCalls == 2

\* CONCURRENCY is read from the environment: 1..MaxConcurrency
MaxConcurrency == 2

\* length of the list getCreatorsToMonitor returns in SpecDispatch
MaxFetched == 4

\* SQL null of live_sessions.ended_at
NULL == -1

Results == {"Live", "Offline", "Unknown"}

----------------------------------------------------------------------------
(* State *)

VARIABLES
  live_now,                \* table live_now: a set of rows, key creator_id
  live_sessions,           \* table live_sessions: rows in insertion order, id = index
  now,                     \* the store's clock, now()
  OFFLINE_MISS_THRESHOLD,  \* configuration, fixed at start
  CONCURRENCY,             \* configuration, fixed at start
  mainpc,                  \* SpecConc: where the process is: "load", "boot" (main
                           \*   awaits "select 1"), "firstPoll", "timer", "exited"
                           \*   (process.exit(1)) or "killed"
  running,                 \* SpecConc: the pollOnce calls that have not returned, a
                           \*   bag of records: state, items, index, tasks
  started,                 \* SpecConc: pollOnce calls made so far
  calls,                   \* SpecConc: creators fetched so far, all cycles together
  aborted,                 \* SpecLog: pollOnce calls that returned from the catch
                           \*   of getCreatorsToMonitor (its logError lines)
  hist,                    \* Spec: per creator, the probe results applied so far
  last,                    \* Spec: the last probe applied: <<creator_id, result,
                           \*   whether the process restarted just before it>>
  restarted,               \* Spec: the process restarted after the last probe
  pre_live_now,            \* Spec: live_now before the last probe
  pre_live_sessions,       \* Spec: live_sessions before the last probe
  dispatch                 \* SpecDispatch: one pollOnce call from the list it
                           \*   fetched to the queue it hands to its workers

storeVars == <<live_now, live_sessions, now>>
seqVars == <<hist, last, restarted, pre_live_now, pre_live_sessions>>
confVars == <<OFFLINE_MISS_THRESHOLD, CONCURRENCY>>
schedVars == <<mainpc, running, started, calls, aborted>>
vars == <<live_now, live_sessions, now, OFFLINE_MISS_THRESHOLD, CONCURRENCY,
          mainpc, running, started, calls, aborted, hist, last, restarted,
          pre_live_now, pre_live_sessions, dispatch>>

----------------------------------------------------------------------------
(* Store statements, as functions of the tables *)

HasRow(ln, c) == \E r \in ln : r.creator_id = c

RowOf(ln, c) == CHOOSE r \in ln : r.creator_id = c

OpenSessions(ls, c) ==
  {i \in DOMAIN ls : ls[i].creator_id = c /\ ls[i].ended_at = NULL}

\* mutant: the conflict branch overwrites went_live_at as well
UpsertLiveNowResetsWentLive(ln, c, t) ==
  (ln \ {r \in ln : r.creator_id = c})
    \cup {[creator_id |-> c, went_live_at |-> t, last_seen_live_at |-> t,
            last_check_at |-> t, miss_count |-> 0, updated_at |-> t]}

\* mutant: the conflict branch does not reset miss_count
UpsertLiveNowKeepsMisses(ln, c, t) ==
  IF \E r \in ln : r.creator_id = c
    THEN {IF r.creator_id = c
            THEN [r EXCEPT !.last_seen_live_at = t, !.last_check_at = t,
                           !.updated_at = t]
            ELSE r : r \in ln}
    ELSE ln \cup {[creator_id |-> c, went_live_at |-> t, last_seen_live_at |-> t,
                   last_check_at |-> t, miss_count |-> 0, updated_at |-> t]}

\* insert into live_now ... on conflict (creator_id) do update set ...
UpsertLiveNow(ln, c, t) ==
  IF HasRow(ln, c)
    THEN {IF r.creator_id = c
            THEN [r EXCEPT !.last_seen_live_at = t, !.last_check_at = t,
                           !.miss_count = 0, !.updated_at = t]
            ELSE r : r \in ln}
    ELSE ln \cup {[creator_id |-> c, went_live_at |-> t, last_seen_live_at |-> t,
                   last_check_at |-> t, miss_count |-> 0, updated_at |-> t]}

\* mutant: the insert without its "where not exists" guard
InsertSessionAlways(ls, c, t) ==
  Append(ls, [creator_id |-> c, started_at |-> t, ended_at |-> NULL])

\* insert into live_sessions ... where not exists (... ended_at is null)
InsertSessionIfNoneOpen(ls, c, t) ==
  IF OpenSessions(ls, c) # {}
    THEN ls
    ELSE Append(ls, [creator_id |-> c, started_at |-> t, ended_at |-> NULL])

\* mutant: the update refreshes the timestamps and forgets the counter
IncrementMissForgotten(ln, c, t) ==
  {IF r.creator_id = c
     THEN [r EXCEPT !.last_check_at = t, !.updated_at = t]
     ELSE r : r \in ln}

\* update live_now set miss_count = miss_count + 1 ... where creator_id = $1
IncrementMiss(ln, c, t) ==
  {IF r.creator_id = c
     THEN [r EXCEPT !.miss_count = @ + 1, !.last_check_at = t, !.updated_at = t]
     ELSE r : r \in ln}

\* ... returning miss_count: the rows the update touched
ReturningMissCount(ln, c) == {r.miss_count : r \in {x \in ln : x.creator_id = c}}

\* mutant: the update without "and ended_at is null"
CloseEverySession(ls, c, t) ==
  [i \in DOMAIN ls |->
     IF ls[i].creator_id = c THEN [ls[i] EXCEPT !.ended_at = t] ELSE ls[i]]

\* update live_sessions set ended_at = now() where creator_id = $1 and ended_at is null
CloseOpenSessions(ls, c, t) ==
  [i \in DOMAIN ls |->
     IF ls[i].creator_id = c /\ ls[i].ended_at = NULL
       THEN [ls[i] EXCEPT !.ended_at = t]
       ELSE ls[i]]

\* mutant: the delete without its where clause
DeleteEveryRow(ln, c) == {}

\* delete from live_now where creator_id = $1
DeleteLiveNow(ln, c) == {r \in ln : r.creator_id # c}

\* mutant: <= for <
BelowOrAtThreshold(missCount, T) == missCount <= T

\* if (missCount < OFFLINE_MISS_THRESHOLD) return
BelowThreshold(missCount, T) == missCount < T

----------------------------------------------------------------------------
(* markLive and markNotLiveCandidate run to completion; t1 and t2 are      *)
(* the values of now() at their statements                                 *)

Store(ln, ls) == [live_now |-> ln, live_sessions |-> ls]

markLive(s, c, t1, t2) ==
  Store(UpsertLiveNow(s.live_now, c, t1),
        InsertSessionIfNoneOpen(s.live_sessions, c, t2))

markNotLiveCandidate(s, c, T, t1, t2) ==
  LET ln1  == IncrementMiss(s.live_now, c, t1)
      rows == ReturningMissCount(ln1, c)
  IN  IF rows = {} THEN s
      ELSE IF BelowThreshold(CHOOSE m \in rows : TRUE, T)
        THEN Store(ln1, s.live_sessions)
        ELSE Store(DeleteLiveNow(ln1, c), CloseOpenSessions(s.live_sessions, c, t2))

\* mutant: a throw of isLive is taken for "not live"
applyProbeThrowIsOffline(s, c, res, T, t1, t2) ==
  IF res = "Live" THEN markLive(s, c, t1, t2)
                  ELSE markNotLiveCandidate(s, c, T, t1, t2)

\* the body of the per-creator task: isLive, then markLive or
\* markNotLiveCandidate; a throw of isLive is caught and nothing else runs
applyProbe(s, c, res, T, t1, t2) ==
  CASE res = "Live"    -> markLive(s, c, t1, t2)
    [] res = "Offline" -> markNotLiveCandidate(s, c, T, t1, t2)
    [] res = "Unknown" -> s

----------------------------------------------------------------------------
(* Spec: probes one at a time *)

NoProbe == <<"none", "none", FALSE>>

ProbesApplied == Len(hist["c1"]) + Len(hist["c2"])

InitStore ==
  /\ live_now = {}
  /\ live_sessions = <<>>
  /\ now = 0

\* no pollOnce call is followed from its list to its queue
NoDispatch == [source |-> "none", creators |-> <<>>, items |-> <<>>, pc |-> "none"]

InitSeq ==
  /\ dispatch = NoDispatch
  /\ hist = [c \in Creators |-> <<>>]
  /\ last = NoProbe
  /\ restarted = FALSE
  /\ pre_live_now = {}
  /\ pre_live_sessions = <<>>

InitSched ==
  /\ mainpc = "load"
  /\ running = EmptyBag
  /\ started = 0
  /\ calls = 0
  /\ aborted = 0

Init ==
  /\ InitStore
  /\ OFFLINE_MISS_THRESHOLD \in 1..MaxThreshold
  /\ CONCURRENCY = 1
  /\ InitSched
  /\ InitSeq

\* one creator is checked.  The clock counts poll intervals: the probe runs
\* in the interval of the one before it or in the next one.
checkCreator(c, res) ==
  /\ ProbesApplied < MaxProbes
  /\ \E d \in {0, 1} :
       LET t == now + d
           s == applyProbe(Store(live_now, live_sessions), c, res,
                           OFFLINE_MISS_THRESHOLD, t, t)
       IN  /\ live_now' = s.live_now
           /\ live_sessions' = s.live_sessions
           /\ now' = t
  /\ hist' = [hist EXCEPT ![c] = Append(@, res)]
  /\ last' = <<c, res, restarted>>
  /\ restarted' = FALSE
  /\ pre_live_now' = live_now
  /\ pre_live_sessions' = live_sessions
  /\ UNCHANGED <<confVars, dispatch, schedVars>>

\* the process is stopped between two probes and started again: it keeps
\* nothing in memory about a creator, and the store is as it was
Restart ==
  /\ ~restarted
  /\ last # NoProbe
  /\ restarted' = TRUE
  /\ UNCHANGED <<storeVars, confVars, dispatch, schedVars, hist, last,
                 pre_live_now, pre_live_sessions>>

Next ==
  \/ \E c \in Creators, res \in Results : checkCreator(c, res)
  \/ Restart

Spec == Init /\ [][Next]_vars

----------------------------------------------------------------------------
(* Properties of Spec *)

Closed(ls, c) == {i \in DOMAIN ls : ls[i].creator_id = c /\ ls[i].ended_at # NULL}

\* h ends with the probes of suffix
EndsWith(h, suffix) ==
  /\ Len(h) >= Len(suffix)
  /\ SubSeq(h, Len(h) - Len(suffix) + 1, Len(h)) = suffix

\* a Live probe followed by j Offline probes
LiveThenOffline(j) == <<"Live">> \o [n \in 1..j |-> "Offline"]

\* C1: probes applied one at a time from an empty store never leave a creator
\* with more than one live_sessions row whose ended_at is null.
C1_AtMostOneOpenSession ==
  \A c \in Creators : Cardinality(OpenSessions(live_sessions, c)) <= 1

\* a creator whose first session was closed and who is live again
C1_Witness ==
  \E c \in Creators :
    /\ Closed(live_sessions, c) # {}
    /\ Cardinality(OpenSessions(live_sessions, c)) = 1
    /\ last = <<c, "Live", FALSE>>

\* C2: a probe whose isLive call throws changes neither table, whatever the
\* creator's state was: no row appears, disappears or changes (miss_count and
\* the timestamps included) and no session is opened or closed.
C2_UnknownIsNeutral ==
  last[2] = "Unknown" =>
    /\ live_now = pre_live_now
    /\ live_sessions = pre_live_sessions

\* the probe threw for a creator with misses pending
C2_Witness ==
  /\ last[2] = "Unknown"
  /\ HasRow(pre_live_now, last[1])
  /\ RowOf(pre_live_now, last[1]).miss_count > 0
  /\ OpenSessions(pre_live_sessions, last[1]) # {}

\* C3: the T-th Offline probe in a row after a Live probe sets ended_at on the
\* creator's open session and deletes its live_now row; an Offline probe for a
\* creator without a live_now row changes nothing in either table.
C3_CrossingClosesOnce ==
  \A c \in Creators :
    last[1] = c /\ last[2] = "Offline" =>
      /\ EndsWith(hist[c], LiveThenOffline(OFFLINE_MISS_THRESHOLD)) =>
           /\ HasRow(pre_live_now, c)
           /\ ~HasRow(live_now, c)
           /\ Cardinality(OpenSessions(pre_live_sessions, c)) = 1
           /\ OpenSessions(live_sessions, c) = {}
           /\ Len(live_sessions) = Len(pre_live_sessions)
           /\ \A i \in DOMAIN live_sessions :
                live_sessions[i] =
                  IF i \in OpenSessions(pre_live_sessions, c)
                    THEN [pre_live_sessions[i] EXCEPT !.ended_at = now]
                    ELSE pre_live_sessions[i]
      /\ ~HasRow(pre_live_now, c) =>
           /\ live_now = pre_live_now
           /\ live_sessions = pre_live_sessions

\* a Live probe, T Offline probes and one more
C3_Witness ==
  \E c \in Creators :
    /\ last = <<c, "Offline", FALSE>>
    /\ EndsWith(hist[c], LiveThenOffline(OFFLINE_MISS_THRESHOLD + 1))
    /\ Closed(live_sessions, c) # {}

\* C4: with T >= 2, after a Live probe and j Offline probes in a row,
\* 1 <= j <= T-1, the creator's row exists with miss_count = j and its session
\* is the open one it had, still open.
C4_HysteresisBelowThreshold ==
  \A c \in Creators : \A j \in 1..(OFFLINE_MISS_THRESHOLD - 1) :
    EndsWith(hist[c], LiveThenOffline(j)) =>
      /\ HasRow(live_now, c)
      /\ RowOf(live_now, c).miss_count = j
      /\ Cardinality(OpenSessions(live_sessions, c)) = 1
      /\ last[1] = c =>
           /\ OpenSessions(live_sessions, c) = OpenSessions(pre_live_sessions, c)
           /\ live_sessions = pre_live_sessions

\* T = 3, a Live probe and T-1 Offline probes
C4_Witness ==
  \E c \in Creators :
    /\ OFFLINE_MISS_THRESHOLD = 3
    /\ last = <<c, "Offline", FALSE>>
    /\ EndsWith(hist[c], LiveThenOffline(2))
    /\ RowOf(live_now, c).miss_count = 2

\* C5: a Live probe for a creator with 0 < miss_count < T sets miss_count to 0
\* and leaves live_sessions as it is, the creator's session open; a Live probe
\* for a creator without a row who has a closed session creates the row with
\* miss_count = 0 and appends one open session, the earlier rows unchanged.
C5_MissReset ==
  \A c \in Creators :
    last[1] = c /\ last[2] = "Live" =>
      /\ ( /\ HasRow(pre_live_now, c)
           /\ RowOf(pre_live_now, c).miss_count > 0
           /\ RowOf(pre_live_now, c).miss_count < OFFLINE_MISS_THRESHOLD ) =>
           /\ HasRow(live_now, c)
           /\ RowOf(live_now, c).miss_count = 0
           /\ live_sessions = pre_live_sessions
           /\ Cardinality(OpenSessions(live_sessions, c)) = 1
      /\ ( /\ ~HasRow(pre_live_now, c)
           /\ Closed(pre_live_sessions, c) # {} ) =>
           /\ HasRow(live_now, c)
           /\ RowOf(live_now, c).miss_count = 0
           /\ Len(live_sessions) = Len(pre_live_sessions) + 1
           /\ SubSeq(live_sessions, 1, Len(pre_live_sessions)) = pre_live_sessions
           /\ OpenSessions(live_sessions, c) = {Len(live_sessions)}
           /\ Closed(live_sessions, c) = Closed(pre_live_sessions, c)

\* live again after a crossing
C5_Witness ==
  \E c \in Creators :
    /\ last = <<c, "Live", FALSE>>
    /\ EndsWith(hist[c], LiveThenOffline(OFFLINE_MISS_THRESHOLD) \o <<"Live">>)
    /\ ~HasRow(pre_live_now, c)
    /\ Closed(live_sessions, c) # {}
    /\ OpenSessions(live_sessions, c) # {}

\* live again with misses pending
C5_WitnessPending ==
  \E c \in Creators :
    /\ last = <<c, "Live", FALSE>>
    /\ HasRow(pre_live_now, c)
    /\ RowOf(pre_live_now, c).miss_count > 0

\* C6: a Live probe right after a Live probe of the same creator, the process
\* restarted in between or not, leaves one open session and one row with
\* miss_count = 0; live_sessions is as before (no row added, started_at kept)
\* and the row differs from the one before at most in last_seen_live_at,
\* last_check_at and updated_at.
C6_IdempotentLive ==
  \A c \in Creators :
    last[1] = c /\ last[2] = "Live" /\ EndsWith(hist[c], <<"Live", "Live">>) =>
      /\ Cardinality(OpenSessions(live_sessions, c)) = 1
      /\ Cardinality({r \in live_now : r.creator_id = c}) = 1
      /\ live_sessions = pre_live_sessions
      /\ HasRow(pre_live_now, c)
      /\ RowOf(live_now, c) =
           [RowOf(pre_live_now, c) EXCEPT !.last_seen_live_at = now,
                                          !.last_check_at = now,
                                          !.updated_at = now]
      /\ RowOf(live_now, c).miss_count = 0
      /\ RowOf(live_now, c).went_live_at = RowOf(pre_live_now, c).went_live_at

\* the second Live probe of a creator nobody had seen, after a restart and
\* in a later poll interval than the first
C6_Witness ==
  \E c \in Creators :
    /\ last = <<c, "Live", TRUE>>
    /\ hist[c] = <<"Live", "Live">>
    /\ RowOf(live_now, c).went_live_at < RowOf(live_now, c).last_seen_live_at

\* the Offline probes applied since the most recent Live probe
RECURSIVE OfflineSinceLive(_)
OfflineSinceLive(h) ==
  IF h = <<>> \/ h[Len(h)] = "Live" THEN 0
  ELSE OfflineSinceLive(SubSeq(h, 1, Len(h) - 1))
         + (IF h[Len(h)] = "Offline" THEN 1 ELSE 0)

SeenLive(h) == \E i \in DOMAIN h : h[i] = "Live"

\* the sessions of creator c that the probe applied last has closed
ClosedByLast(c) ==
  {i \in DOMAIN pre_live_sessions :
     /\ pre_live_sessions[i].creator_id = c
     /\ pre_live_sessions[i].ended_at = NULL
     /\ live_sessions[i].ended_at # NULL}

\* C20: with probes applied one at a time, a creator's row exists only after a
\* Live probe and its miss_count is the number of Offline probes applied since
\* the most recent Live probe, Unknown probes neither counted nor resetting
\* the count; a session is closed only by an Offline probe, the one that
\* brings that number to OFFLINE_MISS_THRESHOLD.
C20_MissCountCountsOffline ==
  \A c \in Creators :
    /\ HasRow(live_now, c) =>
         /\ SeenLive(hist[c])
         /\ RowOf(live_now, c).miss_count = OfflineSinceLive(hist[c])
    /\ ClosedByLast(c) # {} =>
         /\ last[1] = c
         /\ last[2] = "Offline"
         /\ SeenLive(hist[c])
         /\ OfflineSinceLive(hist[c]) = OFFLINE_MISS_THRESHOLD

\* T = 2: Live, Offline, a probe that threw, and the Offline probe that closes
C20_Witness ==
  \E c \in Creators :
    /\ OFFLINE_MISS_THRESHOLD = 2
    /\ hist[c] = <<"Live", "Offline", "Unknown", "Offline">>
    /\ last[1] = c
    /\ ClosedByLast(c) # {}
    /\ ~HasRow(live_now, c)

----------------------------------------------------------------------------
(* SpecFail: probes one at a time, where a pool.query call may throw.  The *)
(* statement that throws changes nothing; the statements of the same       *)
(* operation that ran before it were each committed on their own.          *)

\* the statements markLive or markNotLiveCandidate issues from store s
StatementsReached(s, c, res, T) ==
  IF res = "Live" THEN 2
  ELSE LET rows == ReturningMissCount(IncrementMiss(s.live_now, c, 0), c)
       IN  IF rows = {} THEN 1
           ELSE IF BelowThreshold(CHOOSE m \in rows : TRUE, T) THEN 1 ELSE 3

\* markLive when its k-th pool.query throws
markLiveThrows(s, c, k, t) ==
  IF k = 1 THEN s
  ELSE Store(UpsertLiveNow(s.live_now, c, t), s.live_sessions)

\* markNotLiveCandidate when its k-th pool.query throws
markNotLiveCandidateThrows(s, c, k, t) ==
  LET ln1 == IncrementMiss(s.live_now, c, t)
  IN  CASE k = 1 -> s
        [] k = 2 -> Store(ln1, s.live_sessions)
        [] k = 3 -> Store(ln1, CloseOpenSessions(s.live_sessions, c, t))

\* one creator is checked, isLive answers res and the k-th store statement
\* of the operation throws; the catch of the task logs it
checkCreatorThrows(c, res, k) ==
  /\ ProbesApplied < MaxProbes
  /\ res \in {"Live", "Offline"}
  /\ k \in 1..StatementsReached(Store(live_now, live_sessions), c, res,
                                 OFFLINE_MISS_THRESHOLD)
  /\ \E d \in {0, 1} :
       LET t == now + d
           s == IF res = "Live"
                  THEN markLiveThrows(Store(live_now, live_sessions), c, k, t)
                  ELSE markNotLiveCandidateThrows(Store(live_now, live_sessions),
                                                  c, k, t)
       IN  /\ live_now' = s.live_now
           /\ live_sessions' = s.live_sessions
           /\ now' = t
  /\ hist' = [hist EXCEPT ![c] = Append(@, res \o "Throws")]
  /\ last' = <<c, res \o "Throws", restarted>>
  /\ restarted' = FALSE
  /\ pre_live_now' = live_now
  /\ pre_live_sessions' = live_sessions
  /\ UNCHANGED <<confVars, dispatch, schedVars>>

NextFail ==
  \/ \E c \in Creators, res \in Results : checkCreator(c, res)
  \/ \E c \in Creators, res \in Results, k \in 1..3 : checkCreatorThrows(c, res, k)
  \/ Restart

SpecFail == Init /\ [][NextFail]_vars

\* C17: when a store statement throws while a Live or an Offline result is
\* applied to a creator, both tables are as they were before the probe, as
\* after a probe whose isLive call threw.
C17_FailedMutationIsUnknown ==
  last[2] \in {"LiveThrows", "OfflineThrows"} =>
    /\ live_now = pre_live_now
    /\ live_sessions = pre_live_sessions

----------------------------------------------------------------------------
(* SpecConc: main, the timer, poll cycles and their tasks.  A step is what *)
(* the event loop runs between two awaits; a store statement takes effect  *)
(* in the step that resumes its caller.                                    *)

Min(a, b) == IF a < b THEN a ELSE b

Swap(array, i, j) == [array EXCEPT ![i] = array[j], ![j] = array[i]]

\* the arrays the loop of shuffleArray can leave, from position i downwards
RECURSIVE shuffleFrom(_, _)
shuffleFrom(array, i) ==
  IF i <= 1 THEN {array}
  ELSE UNION {shuffleFrom(Swap(array, i, j), i - 1) : j \in 1..i}

shuffleArray(array) == shuffleFrom(array, Len(array))

\* the lists getCreatorsToMonitor can return
CreatorLists == UNION {[1..n -> Creators] : n \in 0..MaxCalls}

\* a pollOnce call that awaits getCreatorsToMonitor
Fetching == [state |-> "fetch", items |-> <<>>, index |-> 0, task |-> <<>>]

Cycles == BagToSet(running)

Active(cy) == {i \in DOMAIN cy.task : cy.task[i] \notin {"pending", "done"}}

\* prober calls of a cycle that were started and have not returned or thrown
Outstanding(cy) == {i \in DOMAIN cy.task : cy.task[i] = "isLive"}

\* mutant: a worker per item, whatever the limit
startWorkersUnbounded(items, limit) ==
  [state |-> IF Len(items) = 0 THEN "done" ELSE "run",
   items |-> items,
   index |-> Len(items),
   task  |-> [i \in 1..Len(items) |-> "isLive"]]

\* runWithConcurrency: the workers started by the loop, each takes
\* items[index++] and calls isLive on it
startWorkers(items, limit) ==
  LET n == Min(limit, Len(items))
  IN  [state |-> IF Len(items) = 0 THEN "done" ELSE "run",
       items |-> items,
       index |-> n,
       task  |-> [i \in 1..Len(items) |-> IF i <= n THEN "isLive" ELSE "pending"]]

\* mutant: Promise.race for Promise.all, the cycle is over when the first
\* worker finds no item left
nextFirstWorkerEnds(cy, i) ==
  IF cy.index < Len(cy.items)
    THEN [cy EXCEPT !.task[i] = "done",
                    !.task[cy.index + 1] = "isLive",
                    !.index = cy.index + 1]
    ELSE [cy EXCEPT !.task[i] = "done", !.state = "done"]

\* the task of item i returns: its worker runs next(), which takes the next
\* item if there is one and returns otherwise; Promise.all resolves when the
\* last worker has returned
next(cy, i) ==
  IF cy.index < Len(cy.items)
    THEN [cy EXCEPT !.task[i] = "done",
                    !.task[cy.index + 1] = "isLive",
                    !.index = cy.index + 1]
    ELSE [cy EXCEPT !.task[i] = "done",
                    !.state = IF Active(cy) \subseteq {i} THEN "done" ELSE "run"]

\* mutant: the throw leaves the task, the worker's chain of next() calls ends
uncaught(cy, i) == [cy EXCEPT !.task[i] = "done"]

\* a statement of the task of item i throws: the catch of the task logs the
\* error and the task returns as it does without one
caught(cy, i) == next(cy, i)

Finished(cy) == cy.state \in {"done", "aborted"}

\* the pollOnce call cy goes on as cy2; when it returns it leaves the bag, and
\* main, which awaits the first call, goes on to setInterval
Step(cy, cy2) ==
  /\ running' = (running (-) SetToBag({cy}))
                  (+) (IF Finished(cy2) THEN EmptyBag ELSE SetToBag({cy2}))
  /\ mainpc' = IF mainpc = "firstPoll" /\ Finished(cy2) THEN "timer" ELSE mainpc
  /\ UNCHANGED started

InitConc ==
  /\ InitStore
  /\ OFFLINE_MISS_THRESHOLD \in 1..MaxThreshold
  /\ CONCURRENCY \in 1..MaxConcurrency
  /\ InitSched
  /\ InitSeq

\* the module is loaded: without DATABASE_URL the process exits with status
\* 1, with it the pool is created and main awaits its "select 1"
Load ==
  /\ mainpc = "load"
  /\ mainpc' \in {"boot", "exited"}
  /\ UNCHANGED <<running, started, storeVars, confVars, dispatch, seqVars, calls, aborted>>

\* main: the connectivity check answers and the first pollOnce is called, or
\* it throws and the process exits with status 1
Boot ==
  /\ mainpc = "boot"
  /\ \/ /\ mainpc' = "firstPoll"
        /\ running' = SetToBag({Fetching})
        /\ started' = 1
     \/ /\ mainpc' = "exited"
        /\ UNCHANGED <<running, started>>
  /\ UNCHANGED <<storeVars, confVars, dispatch, seqVars, calls, aborted>>

\* mutant: setTimeout for setInterval, the timer fires once
TimerTickOnce ==
  /\ mainpc = "timer"
  /\ started < 2
  /\ started' = started + 1
  /\ running' = running (+) SetToBag({Fetching})
  /\ now' = now + 1
  /\ UNCHANGED <<mainpc, live_now, live_sessions, confVars, dispatch, seqVars, calls, aborted>>

\* the interval timer fires, one poll interval after the last time: pollOnce
\* is called.  The clock of SpecConc counts poll intervals.
TimerTick ==
  /\ mainpc = "timer"
  /\ started < MaxCycles
  /\ started' = started + 1
  /\ running' = running (+) SetToBag({Fetching})
  /\ now' = now + 1
  /\ UNCHANGED <<mainpc, live_now, live_sessions, confVars, dispatch, seqVars, calls, aborted>>

\* mutant: no try/catch around getCreatorsToMonitor, the rejection of the
\* pollOnce call reaches main().catch
FetchFailsEscapes(cy) ==
  /\ cy.state = "fetch"
  /\ running' = running (-) SetToBag({cy})
  /\ mainpc' = "exited"
  /\ UNCHANGED <<started, storeVars, confVars, dispatch, seqVars, calls>>

\* pollOnce: getCreatorsToMonitor throws, the cycle returns
FetchFails(cy) ==
  /\ cy.state = "fetch"
  /\ Step(cy, [cy EXCEPT !.state = "aborted"])
  /\ UNCHANGED <<storeVars, confVars, dispatch, seqVars, calls>>

\* pollOnce: the list arrives, is shuffled and handed to runWithConcurrency
FetchResolves(cy) ==
  /\ cy.state = "fetch"
  /\ \E creators \in CreatorLists :
       /\ calls + Len(creators) <= MaxCalls
       /\ calls' = calls + Len(creators)
       /\ \E items \in shuffleArray(creators) :
            Step(cy, startWorkers(items, CONCURRENCY))
  /\ UNCHANGED <<storeVars, confVars, dispatch, seqVars, aborted>>

AtStatement(cy, i, pc) ==
  /\ cy.state = "run"
  /\ cy.task[i] = pc

\* isLive returns or throws; the task issues its first statement, or is over
IsLiveReturns(cy, i) ==
  /\ AtStatement(cy, i, "isLive")
  /\ \E res \in Results :
       Step(cy, CASE res = "Live"    -> [cy EXCEPT !.task[i] = "upsert"]
                  [] res = "Offline" -> [cy EXCEPT !.task[i] = "increment"]
                  [] res = "Unknown" -> caught(cy, i))
  /\ UNCHANGED <<storeVars, confVars, dispatch, seqVars, calls, aborted>>

\* markLive, first statement
ExecUpsert(cy, i) ==
  /\ AtStatement(cy, i, "upsert")
  /\ live_now' = UpsertLiveNow(live_now, cy.items[i], now)
  /\ Step(cy, [cy EXCEPT !.task[i] = "insert_session"])
  /\ UNCHANGED <<live_sessions, now, confVars, dispatch, seqVars, calls, aborted>>

\* markLive, second statement; markLive returns
ExecInsertSession(cy, i) ==
  /\ AtStatement(cy, i, "insert_session")
  /\ live_sessions' = InsertSessionIfNoneOpen(live_sessions, cy.items[i], now)
  /\ Step(cy, next(cy, i))
  /\ UNCHANGED <<live_now, now, confVars, dispatch, seqVars, calls, aborted>>

\* markNotLiveCandidate, first statement and the two early returns
ExecIncrement(cy, i) ==
  /\ AtStatement(cy, i, "increment")
  /\ LET c    == cy.items[i]
         ln1  == IncrementMiss(live_now, c, now)
         rows == ReturningMissCount(ln1, c)
     IN  /\ live_now' = ln1
         /\ IF rows = {} \/ BelowThreshold(CHOOSE m \in rows : TRUE, OFFLINE_MISS_THRESHOLD)
              THEN Step(cy, next(cy, i))
              ELSE Step(cy, [cy EXCEPT !.task[i] = "close"])
  /\ UNCHANGED <<live_sessions, now, confVars, dispatch, seqVars, calls, aborted>>

\* markNotLiveCandidate, second statement
ExecClose(cy, i) ==
  /\ AtStatement(cy, i, "close")
  /\ live_sessions' = CloseOpenSessions(live_sessions, cy.items[i], now)
  /\ Step(cy, [cy EXCEPT !.task[i] = "delete"])
  /\ UNCHANGED <<live_now, now, confVars, dispatch, seqVars, calls, aborted>>

\* markNotLiveCandidate, third statement; it returns
ExecDelete(cy, i) ==
  /\ AtStatement(cy, i, "delete")
  /\ live_now' = DeleteLiveNow(live_now, cy.items[i])
  /\ Step(cy, next(cy, i))
  /\ UNCHANGED <<live_sessions, now, confVars, dispatch, seqVars, calls, aborted>>

\* a pool.query call of markLive or markNotLiveCandidate throws: the
\* statement has changed nothing, the statements before it stay
StatementThrows(cy, i) ==
  /\ cy.state = "run"
  /\ cy.task[i] \in {"upsert", "insert_session", "increment", "close", "delete"}
  /\ Step(cy, caught(cy, i))
  /\ UNCHANGED <<storeVars, confVars, dispatch, seqVars, calls, aborted>>

\* the process is killed (a signal, a redeploy): what its pollOnce calls had
\* not yet done is not done
Kill ==
  /\ mainpc \in {"firstPoll", "timer"}
  /\ mainpc' = "killed"
  /\ running' = EmptyBag
  /\ UNCHANGED <<started, storeVars, confVars, dispatch, seqVars, calls, aborted>>

NextConc ==
  \/ Load
  \/ Boot
  \/ TimerTick
  \/ \E cy \in Cycles : FetchFails(cy) /\ UNCHANGED aborted
  \/ \E cy \in Cycles : FetchResolves(cy)
  \/ \E cy \in Cycles : \E i \in DOMAIN cy.task : IsLiveReturns(cy, i)
  \/ \E cy \in Cycles : \E i \in DOMAIN cy.task : ExecUpsert(cy, i)
  \/ \E cy \in Cycles : \E i \in DOMAIN cy.task : ExecInsertSession(cy, i)
  \/ \E cy \in Cycles : \E i \in DOMAIN cy.task : ExecIncrement(cy, i)
  \/ \E cy \in Cycles : \E i \in DOMAIN cy.task : ExecClose(cy, i)
  \/ \E cy \in Cycles : \E i \in DOMAIN cy.task : ExecDelete(cy, i)
  \/ \E cy \in Cycles : \E i \in DOMAIN cy.task : StatementThrows(cy, i)
  \/ Kill

SpecConc == InitConc /\ [][NextConc]_vars

\* SpecLog: the same process with one worker per cycle (the cycles overlap
\* all the same), and the count of the "DB error reading creators" lines it
\* has logged
InitLog ==
  /\ InitConc
  /\ CONCURRENCY = 1

NextLog ==
  \/ Load
  \/ Boot
  \/ TimerTick
  \/ \E cy \in Cycles : FetchFails(cy) /\ aborted' = aborted + 1
  \/ \E cy \in Cycles : FetchResolves(cy)
  \/ \E cy \in Cycles : \E i \in DOMAIN cy.task : IsLiveReturns(cy, i)
  \/ \E cy \in Cycles : \E i \in DOMAIN cy.task : ExecUpsert(cy, i)
  \/ \E cy \in Cycles : \E i \in DOMAIN cy.task : ExecInsertSession(cy, i)
  \/ \E cy \in Cycles : \E i \in DOMAIN cy.task : ExecIncrement(cy, i)
  \/ \E cy \in Cycles : \E i \in DOMAIN cy.task : ExecClose(cy, i)
  \/ \E cy \in Cycles : \E i \in DOMAIN cy.task : ExecDelete(cy, i)
  \/ \E cy \in Cycles : \E i \in DOMAIN cy.task : StatementThrows(cy, i)
  \/ Kill

SpecLog == InitLog /\ [][NextLog]_vars

\* SpecCycle: one pollOnce call, the first one, from its await of
\* getCreatorsToMonitor to its return; every call it awaits returns or
\* throws in the end
InitCycle ==
  /\ InitStore
  /\ OFFLINE_MISS_THRESHOLD \in 1..MaxThreshold
  /\ CONCURRENCY \in 1..MaxConcurrency
  /\ InitSeq
  /\ mainpc = "firstPoll"
  /\ running = SetToBag({Fetching})
  /\ started = 1
  /\ calls = 0
  /\ aborted = 0

NextCycle ==
  \/ \E cy \in Cycles : FetchFails(cy) /\ UNCHANGED aborted
  \/ \E cy \in Cycles : FetchResolves(cy)
  \/ \E cy \in Cycles : \E i \in DOMAIN cy.task : IsLiveReturns(cy, i)
  \/ \E cy \in Cycles : \E i \in DOMAIN cy.task : ExecUpsert(cy, i)
  \/ \E cy \in Cycles : \E i \in DOMAIN cy.task : ExecInsertSession(cy, i)
  \/ \E cy \in Cycles : \E i \in DOMAIN cy.task : ExecIncrement(cy, i)
  \/ \E cy \in Cycles : \E i \in DOMAIN cy.task : ExecClose(cy, i)
  \/ \E cy \in Cycles : \E i \in DOMAIN cy.task : ExecDelete(cy, i)
  \/ \E cy \in Cycles : \E i \in DOMAIN cy.task : StatementThrows(cy, i)

SpecCycle == InitCycle /\ [][NextCycle]_vars /\ WF_vars(NextCycle)

----------------------------------------------------------------------------
(* Properties of SpecConc *)

\* the tasks in flight for creator c whose next statement is one of pcs
TasksAt(c, pcs) ==
  {t \in UNION {{<<cy, i>> : i \in DOMAIN cy.task} : cy \in Cycles} :
     /\ t[1].items[t[2]] = c
     /\ t[1].task[t[2]] \in pcs}

\* C7: at most one pollOnce call is in progress at any time (a timer tick
\* during a cycle starts nothing).
C7_OneCycleAtATime == BagCardinality(running) <= 1

\* C9: however the statements of concurrent markLive and markNotLiveCandidate
\* calls for one creator interleave, no two open live_sessions rows of a
\* creator exist.
C9_NoTwoOpenSessions ==
  \A c \in Creators :
    \A i, j \in OpenSessions(live_sessions, c) : i = j

\* markLive about to insert a session while markNotLiveCandidate for the
\* same creator is past its increment
C9_Witness ==
  \E c \in Creators :
    /\ TasksAt(c, {"insert_session"}) # {}
    /\ TasksAt(c, {"close", "delete"}) # {}

\* C10: the prober calls of one cycle that were started and have not returned
\* or thrown never number more than CONCURRENCY.
C10_OutstandingWithinLimit ==
  \A cy \in Cycles : Cardinality(Outstanding(cy)) <= CONCURRENCY

\* the limit is reached and an item waits
C10_Witness ==
  \E cy \in Cycles :
    /\ Cardinality(Outstanding(cy)) = CONCURRENCY
    /\ \E i \in DOMAIN cy.task : cy.task[i] = "pending"

\* how far the task of an item has got
Rank(pc) ==
  CASE pc = "pending"                   -> 0
    [] pc = "isLive"                    -> 1
    [] pc \in {"upsert", "increment"}     -> 2
    [] pc \in {"insert_session", "close"} -> 3
    [] pc = "delete"                    -> 4
    [] pc = "done"                      -> 5

Pending(cy) == {i \in DOMAIN cy.task : cy.task[i] = "pending"}

\* C11: whatever throws in a task (isLive or a store statement), the pollOnce
\* call goes on: while it runs it has a worker at work, and CONCURRENCY of
\* them as long as an item waits, so the worker whose task threw has taken
\* its next item; and the throw never reaches main, which would exit.
C11_TaskErrorsAreIsolated ==
  /\ mainpc # "exited"
  /\ \A cy \in Cycles :
       cy.state = "run" =>
         /\ Active(cy) # {}
         /\ Pending(cy) # {} => Cardinality(Active(cy)) = CONCURRENCY

\* the cycle is over and main is at its timer: the insert of markLive threw
\* for one creator, which has its row and no session, and the other creator
\* has its row and its open session
C11_Witness ==
  /\ running = EmptyBag
  /\ mainpc = "timer"
  /\ \E c, d \in Creators :
       /\ c # d
       /\ HasRow(live_now, c)
       /\ \A i \in DOMAIN live_sessions : live_sessions[i].creator_id # c
       /\ HasRow(live_now, d)
       /\ OpenSessions(live_sessions, d) # {}

\* C12: a pollOnce call whose getCreatorsToMonitor throws returns at once: in
\* that step no prober call is started and neither table changes, the other
\* pollOnce calls go on as they were, the process does not exit and main is
\* at (or reaches) its interval timer, whose next tick calls pollOnce again.
C12_FetchFailureAbortsCycle ==
  [][aborted' # aborted =>
       /\ Fetching \in Cycles
       /\ running' = running (-) SetToBag({Fetching})
       /\ UNCHANGED <<live_now, live_sessions, calls, started>>
       /\ mainpc' = "timer"
    ]_vars

\* every pollOnce call so far was aborted and the timer has started one more,
\* which awaits getCreatorsToMonitor
C12_Witness ==
  /\ aborted >= 1
  /\ aborted = started - 1
  /\ calls = 0
  /\ Fetching \in Cycles
  /\ mainpc = "timer"

\* C13: when every awaited call returns or throws in the end, the pollOnce
\* call returns; while it runs no task goes back (an item is handed to a
\* worker once, and its task then only advances), and in the step in which
\* the call returns once the list was dispatched no item is waiting and the
\* task that ends is the only one not over yet: every item was processed,
\* whether its task threw or not.
C13_CycleCompletes ==
  /\ <>(running = EmptyBag)
  /\ [][ \A cy \in Cycles :
           cy.state = "run" =>
             /\ running' # EmptyBag =>
                  \E cy2 \in BagToSet(running') :
                    /\ cy2.items = cy.items
                    /\ \A i \in DOMAIN cy.task :
                         /\ Rank(cy2.task[i]) >= Rank(cy.task[i])
                         /\ Rank(cy.task[i]) = 0 => Rank(cy2.task[i]) <= 1
             /\ running' = EmptyBag =>
                  /\ Pending(cy) = {}
                  /\ Cardinality(Active(cy)) = 1
      ]_vars

\* the call has returned after a list of MaxCalls creators was dispatched
C13_Witness ==
  /\ running = EmptyBag
  /\ mainpc = "timer"
  /\ calls = MaxCalls

\* C14: in every state, those between two statements of one operation
\* included, each live_now row has 0 <= miss_count < OFFLINE_MISS_THRESHOLD,
\* and no creator keeps its row once the crossing has closed its session
\* (the operation is past its close statement).
C14_CrossingIsAtomic ==
  /\ \A r \in live_now :
       r.miss_count >= 0 /\ r.miss_count < OFFLINE_MISS_THRESHOLD
  /\ \A c \in Creators :
       TasksAt(c, {"delete"}) # {} => ~HasRow(live_now, c)

\* C15: the process exits (status 1) only at startup, before any pollOnce
\* call, prober call or store change; once main has called pollOnce nothing
\* but a kill ends the process, whatever fails in a cycle, and the interval
\* timer, once set, can always fire again.
C15_ExitOnlyAtStartup ==
  /\ [](mainpc = "exited" =>
          /\ started = 0 /\ calls = 0 /\ aborted = 0
          /\ running = EmptyBag
          /\ live_now = {} /\ live_sessions = <<>>)
  /\ [][ (mainpc \in {"firstPoll", "timer"}) =>
           mainpc' \in {"firstPoll", "timer", "killed"} ]_vars
  /\ [](mainpc = "timer" /\ started < MaxCycles => ENABLED TimerTick)

\* a cycle was aborted, creators were probed, and the timer has started its
\* last cycle of the behaviour
C15_Witness ==
  /\ mainpc = "timer"
  /\ aborted >= 1
  /\ calls = MaxCalls
  /\ started = MaxCycles
  /\ live_now # {}

\* C16: when the process is killed, at whatever point of its pollOnce calls,
\* the tables it leaves have at most one open session per creator, a
\* live_now row only for a creator with an open session, and
\* miss_count < OFFLINE_MISS_THRESHOLD in every row.
C16_AbandonKeepsInvariants ==
  mainpc = "killed" =>
    \A c \in Creators :
      /\ Cardinality(OpenSessions(live_sessions, c)) <= 1
      /\ HasRow(live_now, c) =>
           /\ OpenSessions(live_sessions, c) # {}
           /\ RowOf(live_now, c).miss_count < OFFLINE_MISS_THRESHOLD

----------------------------------------------------------------------------
(* SpecPair: two tasks of one cycle hold the same creator (its id came back *)
(* twice from getCreatorsToMonitor) and both isLive calls have answered;    *)
(* the store is what some sequence of probes applied one at a time left.    *)

PairCreator == "c1"

RECURSIVE storeAfter(_, _)
storeAfter(h, T) ==
  IF h = <<>> THEN Store({}, <<>>)
  ELSE applyProbe(storeAfter(SubSeq(h, 1, Len(h) - 1), T), PairCreator,
                  h[Len(h)], T, Len(h), Len(h))

Histories == UNION {[1..n -> Results] : n \in 0..MaxProbes}

FirstStatement(res) == IF res = "Live" THEN "upsert" ELSE "increment"

InitPair ==
  /\ OFFLINE_MISS_THRESHOLD \in 1..MaxThreshold
  /\ CONCURRENCY = 2
  /\ \E h \in Histories :
       /\ live_now = storeAfter(h, OFFLINE_MISS_THRESHOLD).live_now
       /\ live_sessions = storeAfter(h, OFFLINE_MISS_THRESHOLD).live_sessions
       /\ now = Len(h) + 1
  /\ pre_live_now = live_now
  /\ pre_live_sessions = live_sessions
  /\ \E r1, r2 \in {"Live", "Offline"} :
       /\ hist = [c \in Creators |-> IF c = PairCreator THEN <<r1, r2>> ELSE <<>>]
       /\ running = SetToBag({[state |-> "run",
                               items |-> <<PairCreator, PairCreator>>,
                               index |-> 2,
                               task  |-> <<FirstStatement(r1), FirstStatement(r2)>>]})
  /\ last = NoProbe
  /\ restarted = FALSE
  /\ mainpc = "timer"
  /\ started = 2
  /\ calls = 2
  /\ aborted = 0
  /\ dispatch = NoDispatch

NextPair ==
  \/ \E cy \in Cycles : \E i \in DOMAIN cy.task : ExecUpsert(cy, i)
  \/ \E cy \in Cycles : \E i \in DOMAIN cy.task : ExecInsertSession(cy, i)
  \/ \E cy \in Cycles : \E i \in DOMAIN cy.task : ExecIncrement(cy, i)
  \/ \E cy \in Cycles : \E i \in DOMAIN cy.task : ExecClose(cy, i)
  \/ \E cy \in Cycles : \E i \in DOMAIN cy.task : ExecDelete(cy, i)

SpecPair == InitPair /\ [][NextPair]_vars

\* the two operations run one after the other, first a then b
Serial(a, b) ==
  applyProbe(applyProbe(Store(pre_live_now, pre_live_sessions), PairCreator, a,
                        OFFLINE_MISS_THRESHOLD, now, now),
             PairCreator, b, OFFLINE_MISS_THRESHOLD, now, now)

C19_EndedSessionsImmutable ==
  [][ /\ Len(live_sessions') >= Len(live_sessions)
      /\ \A i \in DOMAIN live_sessions :
           \/ live_sessions'[i] = live_sessions[i]
           \/ /\ live_sessions[i].ended_at = NULL
              /\ live_sessions'[i].ended_at # NULL
              /\ live_sessions'[i] =
                   [live_sessions[i] EXCEPT !.ended_at = live_sessions'[i].ended_at]
    ]_vars

\* the creator had a closed session and an open one; one of the two
\* operations has closed the open one and the other has opened a third
C19_Witness ==
  /\ \E i \in DOMAIN pre_live_sessions : pre_live_sessions[i].ended_at # NULL
  /\ \E i \in DOMAIN pre_live_sessions :
       /\ pre_live_sessions[i].ended_at = NULL
       /\ live_sessions[i].ended_at = now
  /\ Len(live_sessions) > Len(pre_live_sessions)

----------------------------------------------------------------------------
(* SpecDispatch: the order in which one pollOnce call hands the list it     *)
(* fetched to its workers, for the two pollOnce of the repository: the one  *)
(* of src/index.js maps the list onto p-limit as it came, the one of        *)
(* src/unnamed/part_002 calls shuffleArray on it first.                     *)

Sources == {"src/index.js", "src/unnamed/part_002"}

\* the lists getCreatorsToMonitor can return
FetchedLists == UNION {[1..n -> Creators] : n \in 0..MaxFetched}

\* the queues pollOnce can hand to its workers for the list creators
pollOnceOrder(source, creators) ==
  IF source = "src/unnamed/part_002" THEN shuffleArray(creators) ELSE {creators}

InitDispatch ==
  /\ InitStore
  /\ OFFLINE_MISS_THRESHOLD = 1
  /\ CONCURRENCY = 1
  /\ InitSched
  /\ InitSeq

\* pollOnce: getCreatorsToMonitor returns
Fetched ==
  /\ dispatch = NoDispatch
  /\ \E source \in Sources, creators \in FetchedLists :
       dispatch' = [source |-> source, creators |-> creators,
                    items |-> <<>>, pc |-> "fetched"]
  /\ UNCHANGED <<storeVars, confVars, schedVars, hist, last, restarted,
                 pre_live_now, pre_live_sessions>>

\* pollOnce: the list goes to Promise.allSettled(creators.map(...)) or, after
\* shuffleArray, to runWithConcurrency
Dispatched ==
  /\ dispatch.pc = "fetched"
  /\ \E items \in pollOnceOrder(dispatch.source, dispatch.creators) :
       dispatch' = [dispatch EXCEPT !.items = items, !.pc = "dispatched"]
  /\ UNCHANGED <<storeVars, confVars, schedVars, hist, last, restarted,
                 pre_live_now, pre_live_sessions>>

NextDispatch ==
  \/ Fetched
  \/ Dispatched

SpecDispatch == InitDispatch /\ [][NextDispatch]_vars

Count(list, c) == Cardinality({i \in DOMAIN list : list[i] = c})

\* the same creators, each as many times
IsPermutation(a, b) ==
  /\ Len(a) = Len(b)
  /\ \A c \in Creators : Count(a, c) = Count(b, c)

Orderings(list) == {q \in [1..Len(list) -> Creators] : IsPermutation(q, list)}

\* C18: the queue a pollOnce call hands to its workers is a permutation of
\* the list it fetched, and every ordering of that list is a queue the call
\* can hand over.
C18_DispatchOrderIsRandom ==
  /\ dispatch.pc = "dispatched" => IsPermutation(dispatch.items, dispatch.creators)
  /\ dispatch.pc = "fetched" =>
       Orderings(dispatch.creators)
         \subseteq pollOnceOrder(dispatch.source, dispatch.creators)

\* the same, for the pollOnce that calls shuffleArray
ShuffledDispatchOrderIsRandom ==
  dispatch.source = "src/unnamed/part_002" => C18_DispatchOrderIsRandom

----------------------------------------------------------------------------
(* SpecFrame: one cycle holds two different creators, both workers are      *)
(* started and both isLive calls have answered (a throw was caught and its  *)
(* task is over); the store is what probes applied one at a time left.      *)

\* what the tables hold for one creator
PresenceOf(ln, c) == {r \in ln : r.creator_id = c}

SessionsOf(ls, c) == SelectSeq(ls, LAMBDA r : r.creator_id = c)

\* the probe results that change the store, in sequences long enough to
\* reach the threshold
StoreHistories == UNION {[1..n -> {"Live", "Offline"}] : n \in 0..MaxThreshold}

\* the store s after the probes h of creator c, one per poll interval after t0
RECURSIVE storeAfterProbes(_, _, _, _, _)
storeAfterProbes(s, c, h, T, t0) ==
  IF h = <<>> THEN s
  ELSE applyProbe(storeAfterProbes(s, c, SubSeq(h, 1, Len(h) - 1), T, t0), c,
                  h[Len(h)], T, t0 + Len(h), t0 + Len(h))

\* where the task is once isLive has answered
AfterIsLive(res) == IF res = "Unknown" THEN "done" ELSE FirstStatement(res)

InitFrame ==
  /\ OFFLINE_MISS_THRESHOLD \in 1..MaxThreshold
  /\ CONCURRENCY = 2
  /\ \E h1, h2 \in StoreHistories :
       LET s1 == storeAfterProbes(Store({}, <<>>), "c1", h1,
                                  OFFLINE_MISS_THRESHOLD, 0)
           s2 == storeAfterProbes(s1, "c2", h2, OFFLINE_MISS_THRESHOLD, Len(h1))
       IN  /\ live_now = s2.live_now
           /\ live_sessions = s2.live_sessions
           /\ now = Len(h1) + Len(h2) + 1
  /\ pre_live_now = live_now
  /\ pre_live_sessions = live_sessions
  /\ \E items \in shuffleArray(<<"c1", "c2">>) :
       \E res \in [Creators -> Results] :
         LET cy == [state |-> "run",
                    items |-> items,
                    index |-> 2,
                    task  |-> [i \in 1..2 |-> AfterIsLive(res[items[i]])]]
         IN  /\ hist = [c \in Creators |-> <<res[c]>>]
             /\ running = IF Active(cy) = {} THEN EmptyBag ELSE SetToBag({cy})
  /\ last = NoProbe
  /\ restarted = FALSE
  /\ mainpc = "timer"
  /\ started = 2
  /\ calls = 2
  /\ aborted = 0
  /\ dispatch = NoDispatch

SpecFrame == InitFrame /\ [][NextPair]_vars

\* the step is a statement of the task of creator c
Acting(c) ==
  \E cy \in Cycles : \E i \in Active(cy) :
    /\ cy.items[i] = c
    /\ \A cy2 \in BagToSet(running') : cy2.task[i] # cy.task[i]

\* the step leaves what the tables hold for creator b as it is
Untouched(b) ==
  /\ PresenceOf(live_now', b) = PresenceOf(live_now, b)
  /\ SessionsOf(live_sessions', b) = SessionsOf(live_sessions, b)

\* the store when the probe of creator c is the only one applied
Alone(c) ==
  applyProbe(Store(pre_live_now, pre_live_sessions), c, hist[c][1],
             OFFLINE_MISS_THRESHOLD, now, now)

\* C21: every statement of the task of one creator, whatever its probe
\* result and wherever the other task is, leaves the live_now row and the
\* live_sessions rows of the other creator unchanged; and when the cycle is
\* over each creator's rows are what its own probe applied alone gives,
\* whatever the order in which the statements of the two tasks ran.
C21_OtherCreatorsUntouched ==
  /\ [][ /\ \E a \in Creators : Acting(a)
         /\ \A a \in Creators :
              Acting(a) => \A b \in Creators \ {a} : Untouched(b)
       ]_vars
  /\ [](running = EmptyBag =>
          \A c \in Creators :
            /\ PresenceOf(live_now, c) = PresenceOf(Alone(c).live_now, c)
            /\ SessionsOf(live_sessions, c) = SessionsOf(Alone(c).live_sessions, c))

\* c1 has crossed the threshold (row deleted, session closed) while c2,
\* which had a row and an open session, was found live again
C21_Witness ==
  /\ running = EmptyBag
  /\ hist["c1"] = <<"Offline">>
  /\ HasRow(pre_live_now, "c1")
  /\ ~HasRow(live_now, "c1")
  /\ OpenSessions(pre_live_sessions, "c1") # {}
  /\ OpenSessions(live_sessions, "c1") = {}
  /\ hist["c2"] = <<"Live">>
  /\ HasRow(pre_live_now, "c2")
  /\ HasRow(live_now, "c2")
  /\ RowOf(live_now, "c2").went_live_at < now
  /\ RowOf(live_now, "c2").last_seen_live_at = now
  /\ OpenSessions(live_sessions, "c2") = OpenSessions(pre_live_sessions, "c2")
  /\ OpenSessions(live_sessions, "c2") # {}

----------------------------------------------------------------------------
(* SpecRun: the process of SpecConc from the empty store when nothing      *)
(* fails after the fetch: no store statement throws and the process is not *)
(* killed.  A fetched list names a creator once, so that two tasks working *)
(* on one creator belong to two pollOnce calls that overlap.               *)

\* no creator_id comes twice in the list
Distinct(items) ==
  \A i, j \in DOMAIN items : items[i] = items[j] => i = j

NextRun ==
  \/ Load
  \/ Boot
  \/ TimerTick
  \/ \E cy \in Cycles : FetchFails(cy) /\ UNCHANGED aborted
  \/ \E cy \in Cycles :
       /\ FetchResolves(cy)
       /\ \A cy2 \in BagToSet(running') : Distinct(cy2.items)
  \/ \E cy \in Cycles : \E i \in DOMAIN cy.task : IsLiveReturns(cy, i)
  \/ \E cy \in Cycles : \E i \in DOMAIN cy.task : ExecUpsert(cy, i)
  \/ \E cy \in Cycles : \E i \in DOMAIN cy.task : ExecInsertSession(cy, i)
  \/ \E cy \in Cycles : \E i \in DOMAIN cy.task : ExecIncrement(cy, i)
  \/ \E cy \in Cycles : \E i \in DOMAIN cy.task : ExecClose(cy, i)
  \/ \E cy \in Cycles : \E i \in DOMAIN cy.task : ExecDelete(cy, i)

SpecRun == InitConc /\ [][NextRun]_vars

\* where a task is from the call of isLive to the return of its operation
Started == {"isLive", "upsert", "insert_session", "increment", "close", "delete"}

\* C22: whenever no task that was started for a creator is still running, in
\* any cycle, the creator has an open live_sessions row if and only if it
\* has a live_now row.
C22_OpenSessionIffRow ==
  \A c \in Creators :
    TasksAt(c, Started) = {} =>
      (HasRow(live_now, c) <=> OpenSessions(live_sessions, c) # {})

============================================================================
